---- MODULE Spec2Model ----
(***************************************************************************)
(* DockTiles (src/app/main.py): a FastAPI dashboard over a container       *)
(* runtime.  The module models                                             *)
(*   - the access gate (require_auth) and the ALLOW_ACTIONS flag,          *)
(*   - the seven HTTP handlers and the runtime calls each one issues,      *)
(*   - port extraction, the view-model builder and the HTTP-port heuristic.*)
(*                                                                         *)
(* Representation.  A Python str that the code inspects character by       *)
(* character (the Authorization header, the secret, host-port strings,     *)
(* port hints) is a sequence of one-character strings over Latin-1.  A str *)
(* that is only copied or compared is a TLA+ string.  A value that may be  *)
(* missing (an unset environment variable, a header that was not sent, a   *)
(* dict key that is absent, a function result of None) is a sequence of    *)
(* length 0 or 1; a dict key that is present and maps to null is Null.     *)
(* A helper that may raise yields a result record: the exception it raised *)
(* ("" when it returned) and the value it returned.                        *)
(***************************************************************************)
EXTENDS Integers, Sequences, FiniteSets, Bags, TLC

VARIABLES
    JWT_SECRET,     \* main.py:19  optional secret, fixed for the process lifetime
    ALLOW_ACTIONS,  \* main.py:20  boolean flag, fixed for the process lifetime
    PORT_HINTS,     \* main.py:38  ordered list of port strings
    reqs,           \* the HTTP requests received so far (a bag of request records)
    auth_in,        \* access gate in isolation: the Authorization header
    auth_out,       \* access gate in isolation: the outcome
    ext_c,          \* port extraction in isolation: the container
    ext_ports,      \* port extraction in isolation: the result
    ports_in,       \* port heuristic in isolation: the ports list
    http_port,      \* port heuristic in isolation: the result
    raw,            \* view-model builder in isolation: the raw container
    view            \* view-model builder in isolation: the ContainerDTO

vars == <<JWT_SECRET, ALLOW_ACTIONS, PORT_HINTS, reqs, auth_in, auth_out,
          ext_c, ext_ports, ports_in, http_port, raw, view>>

(***************************************************************************)
(* Bounds                                                                  *)
(***************************************************************************)
MaxReqs == 2

MaxKeys == 2

MaxBindings == 2

MaxPorts == 3

(***************************************************************************)
(* Optional values                                                         *)
(***************************************************************************)
None == <<>>

Some(v) == <<v>>

\* a dict key that is present and maps to null (JSON null, Python None);
\* told apart from None and Some(v) by its length
Null == <<"null", "null">>

IsNull(e) == Len(e) = 2

\* d.get(key, default) for the entry e of key in d: the default replaces an
\* absent key only, never a null value
dict_get(e, default) == IF e = None THEN Some(default) ELSE e

\* outcome of a helper that may raise
Return(v) == [raised |-> "", value |-> Some(v)]

Raise(e) == [raised |-> e, value |-> None]

(***************************************************************************)
(* Python str operations used by the code                                  *)
(***************************************************************************)
\* the Latin-1 characters str.lower() changes: A..Z and U+00C0..U+00DE
\* without U+00D7
UpperAlpha == <<"A","B","C","D","E","F","G","H","I","J","K","L","M",
                "N","O","P","Q","R","S","T","U","V","W","X","Y","Z",
                "À","Á","Â","Ã","Ä","Å","Æ","Ç","È","É","Ê","Ë","Ì","Í","Î",
                "Ï","Ð","Ñ","Ò","Ó","Ô","Õ","Ö","Ø","Ù","Ú","Û","Ü","Ý","Þ">>

LowerAlpha == <<"a","b","c","d","e","f","g","h","i","j","k","l","m",
                "n","o","p","q","r","s","t","u","v","w","x","y","z",
                "à","á","â","ã","ä","å","æ","ç","è","é","ê","ë","ì","í","î",
                "ï","ð","ñ","ò","ó","ô","õ","ö","ø","ù","ú","û","ü","ý","þ">>

\* the lower-case form of each character that has one
LowerOf ==
    [c \in {UpperAlpha[i] : i \in 1..Len(UpperAlpha)} |->
        LowerAlpha[CHOOSE i \in 1..Len(UpperAlpha) : UpperAlpha[i] = c]]

\* str.lower() on one Latin-1 character
LowerChar(c) == IF c \in DOMAIN LowerOf THEN LowerOf[c] ELSE c

\* str.lower()
Lower(s) == [i \in 1..Len(s) |-> LowerChar(s[i])]

\* str.startswith(p)
StartsWith(s, p) == Len(s) >= Len(p) /\ SubSeq(s, 1, Len(p)) = p

\* s.split(" ", 1)[1] : what follows the first space (the caller has already
\* established that s contains one)
SplitSpace1(s) ==
    LET k == CHOOSE i \in 1..Len(s) :
                 s[i] = " " /\ \A j \in 1..(i - 1) : s[j] # " "
    IN  SubSeq(s, k + 1, Len(s))

bearer_ == <<"b", "e", "a", "r", "e", "r", " ">>

(***************************************************************************)
(* Access gate: require_auth.  0 = the dependency returns (admitted),      *)
(* 401 / 403 = the status of the HTTPException it raises.                  *)
(***************************************************************************)
\* plausible slip: every failure of the check reported as 403
require_auth_all403(secret, auth) ==
    IF secret = None \/ secret[1] = <<>> THEN 0
    ELSE IF auth = None \/ auth[1] = <<>>
            \/ ~StartsWith(Lower(auth[1]), bearer_) THEN 403
    ELSE IF SplitSpace1(auth[1]) # secret[1] THEN 403
    ELSE 0

\* plausible slip: token compared case-insensitively
require_auth_nocase(secret, auth) ==
    IF secret = None \/ secret[1] = <<>> THEN 0
    ELSE IF auth = None \/ auth[1] = <<>>
            \/ ~StartsWith(Lower(auth[1]), bearer_) THEN 401
    ELSE IF Lower(SplitSpace1(auth[1])) # Lower(secret[1]) THEN 403
    ELSE 0

require_auth(secret, auth) ==
    IF secret = None \/ secret[1] = <<>> THEN 0          \* not JWT_SECRET
    ELSE IF auth = None \/ auth[1] = <<>>                \* not auth
            \/ ~StartsWith(Lower(auth[1]), bearer_) THEN 401
    ELSE IF SplitSpace1(auth[1]) # secret[1] THEN 403
    ELSE 0

(***************************************************************************)
(* Strings used as inputs                                                  *)
(***************************************************************************)
s3cret == <<"s", "3", "c", "r", "e", "t">>

BearerGood == <<"B", "e", "a", "r", "e", "r", " ", "s", "3", "c", "r", "e", "t">>

BearerWrong == <<"B", "e", "a", "r", "e", "r", " ", "w", "r", "o", "n", "g">>

\* headers tried against the gate in isolation
GateHeaders ==
    { None,
      Some(<<>>),
      Some(BearerGood),
      Some(BearerWrong),
      Some(<<"b", "e", "a", "r", "e", "r", " ", "s", "3", "c", "r", "e", "t">>),
      Some(<<"B", "E", "A", "R", "E", "R", " ", "s", "3", "c", "r", "e", "t">>),
      Some(<<"B", "e", "a", "r", "e", "r", " ", " ", "s", "3", "c", "r", "e", "t">>),
      Some(<<"B", "e", "a", "r", "e", "r", " ", "S", "3", "C", "R", "E", "T">>),
      Some(<<"B", "e", "a", "r", "e", "r", " ", "s", "3", "c", "r", "e", "t", " ">>),
      Some(<<"B", "e", "a", "r", "e", "r", " ", "a", " ", "b">>),
      Some(<<"B", "e", "a", "r", "e", "r", " ">>),
      Some(<<"B", "e", "a", "r", "e", "r">>),
      Some(<<"B", "a", "s", "i", "c", " ", "s", "3", "c", "r", "e", "t">>),
      Some(<<"B", "E", "A", "R", "E", "R", " ", "À", "É">>),
      Some(<<"Ð", "e", "a", "r", "e", "r", " ", "s", "3", "c", "r", "e", "t">>),
      Some(s3cret) }

\* values of DOCKTILES_JWT_SECRET tried against the gate in isolation
GateSecrets ==
    { None, Some(<<>>), Some(s3cret), Some(<<"a", " ", "b">>),
      Some(<<"S", "3", "C", "R", "E", "T">>) }

(***************************************************************************)
(* Python int(x) and str(n)                                                *)
(***************************************************************************)
Digits == <<"0", "1", "2", "3", "4", "5", "6", "7", "8", "9">>

IsDigit(ch) == \E d \in 1..10 : Digits[d] = ch

DigitVal(ch) == (CHOOSE d \in 1..10 : Digits[d] = ch) - 1

\* the characters int() strips: \t \n \v \f \r, space, U+0085 and U+00A0
\* (U+001C..U+001F are not stripped)
IsSpace(ch) == ch \in {" ", "\t", "\n", "\r", "\f", "", "", " "}

RECURSIVE LStrip(_)
LStrip(s) == IF s # <<>> /\ IsSpace(Head(s)) THEN LStrip(Tail(s)) ELSE s

RECURSIVE RStrip(_)
RStrip(s) ==
    IF s # <<>> /\ IsSpace(s[Len(s)]) THEN RStrip(SubSeq(s, 1, Len(s) - 1)) ELSE s

\* digits, with single underscores allowed between two digits
IntBodyOk(b) ==
    /\ b # <<>>
    /\ \A i \in 1..Len(b) :
          \/ IsDigit(b[i])
          \/ /\ b[i] = "_"
             /\ 1 < i /\ i < Len(b)
             /\ IsDigit(b[i - 1]) /\ IsDigit(b[i + 1])

RECURSIVE IntBodyVal(_, _)
IntBodyVal(b, acc) ==
    IF b = <<>> THEN acc
    ELSE IF Head(b) = "_" THEN IntBodyVal(Tail(b), acc)
    ELSE IntBodyVal(Tail(b), 10 * acc + DigitVal(Head(b)))

\* int(b.get("HostPort")) inside "try ... except (TypeError, ValueError)":
\* Some(n), or None when int raises (the key is absent or null: TypeError;
\* the value is no integer literal: ValueError)
py_int(x) ==
    IF x = None \/ IsNull(x) THEN None
    ELSE LET t      == RStrip(LStrip(x[1]))
             signed == t # <<>> /\ t[1] \in {"+", "-"}
             body   == IF signed THEN Tail(t) ELSE t
         IN  IF ~IntBodyOk(body) THEN None
             ELSE IF signed /\ t[1] = "-" THEN Some(0 - IntBodyVal(body, 0))
             ELSE Some(IntBodyVal(body, 0))

RECURSIVE NatStr(_)
NatStr(n) ==
    IF n < 10 THEN <<Digits[n + 1]>>
    ELSE NatStr(n \div 10) \o <<Digits[(n % 10) + 1]>>

\* str(n) for an int
py_str(n) == IF n < 0 THEN <<"-">> \o NatStr(0 - n) ELSE NatStr(n)

(***************************************************************************)
(* Port extraction: _extract_published_ports                               *)
(***************************************************************************)
PortInfo(host, port) == [host |-> host, port |-> port]

\* "for b in bindings": the ports after the loop, from the ports before it.
\* PortInfo(host=None, ...) fails the model's validation (host: str), outside
\* the try block.
RECURSIVE bindings_loop(_, _)
bindings_loop(bs, ports) ==
    IF bs = <<>> THEN Return(ports)
    ELSE LET b    == Head(bs)
             host == dict_get(b.HostIp, "127.0.0.1")
             port == py_int(b.HostPort)
         IN  IF port = None
             THEN bindings_loop(Tail(bs), ports)                  \* continue
             ELSE IF IsNull(host) THEN Raise("ValidationError")
             ELSE bindings_loop(Tail(bs), Append(ports, PortInfo(host[1], port[1])))

\* "for container_port, bindings in port_map.items()"
RECURSIVE port_map_loop(_, _)
port_map_loop(items, ports) ==
    IF items = <<>> THEN Return(ports)
    ELSE LET bindings == Head(items).bindings IN
         IF IsNull(bindings) \/ bindings[1] = <<>>                \* not bindings
         THEN port_map_loop(Tail(items), ports)
         ELSE LET r == bindings_loop(bindings[1], ports) IN
              IF r.raised # "" THEN r
              ELSE port_map_loop(Tail(items), r.value[1])

\* c.attrs.get("NetworkSettings", {}).get("Ports", {}) or {}
port_map_of(c) ==
    LET net == c.attrs.NetworkSettings IN
    IF IsNull(net) THEN Raise("AttributeError")                   \* None.get
    ELSE IF net = None THEN Return(<<>>)
    ELSE IF net[1].Ports = None \/ IsNull(net[1].Ports) THEN Return(<<>>)
    ELSE Return(net[1].Ports[1])

extract_published_ports(c) ==
    LET m == port_map_of(c) IN
    IF m.raised # "" THEN m ELSE port_map_loop(m.value[1], <<>>)

(***************************************************************************)
(* View-model builder: _dto (the attrs are those c.reload() fetched)       *)
(***************************************************************************)
dto(c) ==
    LET st       == c.attrs.State
        cf       == c.attrs.Config
        state    == IF st = None THEN Some("unknown")
                    ELSE dict_get(st[1].Status, "unknown")
        fallback == IF c.image.tags # <<>> THEN c.image.tags[1]
                    ELSE c.image.short_id
        image    == IF cf = None THEN Some(fallback)
                    ELSE dict_get(cf[1].Image, fallback)
        ports    == extract_published_ports(c)
    IN  IF IsNull(st) THEN Raise("AttributeError")                \* line 73
        ELSE IF IsNull(cf) THEN Raise("AttributeError")           \* line 74
        ELSE IF ports.raised # "" THEN ports                      \* line 81
        ELSE IF IsNull(image) \/ IsNull(state)
        THEN Raise("ValidationError")                             \* image: str, state: str
        ELSE Return([id     |-> c.short_id,
                     name   |-> c.name,
                     image  |-> image[1],
                     status |-> c.status,
                     state  |-> state[1],
                     ports  |-> ports.value[1]])

(***************************************************************************)
(* The runtime, as the handlers see it                                     *)
(***************************************************************************)
\* containers the runtime knows, in the order containers.list(all=True) reports
Containers == <<"web", "db">>

Exists(name) == \E i \in 1..Len(Containers) : Containers[i] = name

\* names a request may carry in its path
Names == {"web", "ghost"}

Endpoints == {"home", "detail", "start", "stop", "restart", "logs", "healthz"}

ActionEndpoints == {"start", "stop", "restart"}

\* plausible slip: one route declared without Depends(require_auth)
HasAuthDep_nologs(ep) == ep \notin {"healthz", "logs"}

\* routes declared with _=Depends(require_auth)
HasAuthDep(ep) == ep # "healthz"

\* headers carried by the requests of the HTTP model
ReqHeaders == { None, Some(BearerGood), Some(BearerWrong) }

Call(op, arg) == [op |-> op, arg |-> arg]

\* plausible slip: the actions flag is not consulted
actions_guard_off(allow) == 0

\* "if not ALLOW_ACTIONS: raise HTTPException(status_code=403, ...)"
actions_guard(allow) == IF allow THEN 0 ELSE 403

\* the runtime calls a handler body issues, in program order, as long as
\* none of them raises
RECURSIVE reload_each(_)
reload_each(cs) ==
    IF cs = <<>> THEN <<>>
    ELSE <<Call("reload", Head(cs))>> \o reload_each(Tail(cs))

\* plausible slip: the command is issued again (a retry)
handler_calls_retry(ep, name) ==
    CASE ep = "home"    -> <<Call("list", "")>> \o reload_each(Containers)
      [] ep = "detail"  -> <<Call("get", name), Call("reload", name)>>
      [] ep = "logs"    -> <<Call("get", name), Call("logs", name)>>
      [] ep = "healthz" -> <<Call("ping", "")>>
      [] OTHER          -> <<Call("get", name), Call(ep, name), Call(ep, name)>>

handler_calls(ep, name) ==
    CASE ep = "home"    -> <<Call("list", "")>> \o reload_each(Containers)
      [] ep = "detail"  -> <<Call("get", name), Call("reload", name)>>
      [] ep = "logs"    -> <<Call("get", name), Call("logs", name)>>
      [] ep = "healthz" -> <<Call("ping", "")>>
      [] OTHER          -> <<Call("get", name), Call(ep, name)>>

\* what the runtime may answer to a call: "ok", or the exception it raises.
\* Any call may fail with APIError (daemon error, daemon unreachable);
\* containers.get raises NotFound for a name the runtime does not know.
RuntimeOutcomes(c) ==
    IF c.op = "get"
    THEN IF Exists(c.arg) THEN {"ok", "APIError"} ELSE {"NotFound", "APIError"}
    ELSE {"ok", "APIError"}

Binding(ip, hp) == [HostIp |-> ip, HostPort |-> hp]

Container(config, state, net, tags) ==
    [short_id |-> "3f2a9c1b7d", name |-> "web", status |-> "running",
     attrs |-> [Config |-> config, State |-> state, NetworkSettings |-> net],
     image |-> [tags |-> tags, short_id |-> "sha256:9e1b2c3d4f"]]

SampleMap1 ==
    << [key |-> "80/tcp", bindings |-> Some(<<Binding(Some("0.0.0.0"), Some(<<"8", "0", "8", "0">>))>>)],
       [key |-> "443/tcp", bindings |-> Null] >>

SampleMap2 ==
    << [key |-> "53/udp", bindings |-> Some(<<Binding(None, Some(<<"a", "b", "c">>)),
                                              Binding(None, Some(<<"2", "2">>))>>)] >>

SampleMap3 ==
    << [key |-> "22/tcp", bindings |-> Some(<<Binding(Null, Some(<<"2", "2">>))>>)] >>

\* the container c.reload() leaves behind: the attrs the runtime reports for
\* it (complete, or with a null where a value is expected)
Reloaded(name) ==
    { [c EXCEPT !.name = name] : c \in
        { Container(Some([Image |-> Some("nginx:1.25")]), Some([Status |-> Some("running")]),
                    Some([Ports |-> Some(SampleMap1)]), <<"nginx:latest">>),
          Container(None, None, Some([Ports |-> Some(SampleMap3)]), <<>>),
          Container(None, Null, None, <<>>),
          Container(Some([Image |-> Null]), None, None, <<"nginx:latest">>),
          Container(None, None, Null, <<>>) } }

\* per container, what _dto may raise on the reloaded container ("" when it
\* returns the view)
DtoRaises == [i \in 1..Len(Containers) |->
                {dto(x).raised : x \in Reloaded(Containers[i])}]

\* what happens once call c has returned: _dto builds the view of the
\* container right after its c.reload(); "" or the exception that leaves it
AfterCall(c) ==
    IF c.op = "reload"
    THEN DtoRaises[CHOOSE i \in 1..Len(Containers) : Containers[i] = c.arg]
    ELSE {""}

\* the status FastAPI sends when an exception other than HTTPException
\* leaves a handler
UnhandledStatus == 500

\* healthz catches Exception itself and returns Response(status_code=500)
HealthzErrorStatus == 500

\* handlers whose body runs inside "try ... except Exception"
CatchesException(ep) == ep = "healthz"

(***************************************************************************)
(* HTTP model.  A request is                                               *)
(*   ep, name, auth : what was received                                    *)
(*   pc     : "gate" (dependency not yet run), "body", "done"              *)
(*   status : 0 until answered                                             *)
(*   raised : "" or the exception that left the dependency or the handler  *)
(*   calls  : the runtime calls it has issued, in order                    *)
(***************************************************************************)
NewReq(ep, name, auth) ==
    [ep |-> ep, name |-> name, auth |-> auth,
     pc |-> IF HasAuthDep(ep) THEN "gate" ELSE "body",
     status |-> 0, raised |-> "", calls |-> <<>>]

\* main.py:38, the default of DOCKTILES_HTTP_SCHEMES after split and strip
DefaultHints ==
    << <<"8", "0", "8", "0">>, <<"3", "0", "0", "0">>, <<"8", "0">>,
       <<"5", "0", "0", "0">>, <<"8", "0", "0", "0">>, <<"8", "8", "8", "8">>,
       <<"9", "0", "9", "0">> >>

IdleGate == auth_in = None /\ auth_out = None

IdleExtract == ext_c = None /\ ext_ports = None

IdleHeuristic == ports_in = <<>> /\ http_port = None

IdleDto == raw = None /\ view = None

\* the module after import: DOCKTILES_JWT_SECRET unset, empty or set,
\* DOCKTILES_ALLOW_ACTIONS "true" or not, DOCKTILES_HTTP_SCHEMES unset
Init ==
    /\ JWT_SECRET \in {None, Some(<<>>), Some(s3cret)}
    /\ ALLOW_ACTIONS \in BOOLEAN
    /\ PORT_HINTS = DefaultHints
    /\ reqs = EmptyBag
    /\ IdleGate /\ IdleExtract /\ IdleHeuristic /\ IdleDto

HttpUnchanged ==
    UNCHANGED <<JWT_SECRET, ALLOW_ACTIONS, PORT_HINTS, auth_in, auth_out,
                ext_c, ext_ports, ports_in, http_port, raw, view>>

\* the bag of requests with one copy of r replaced by r2
Replace(r, r2) == (reqs (-) SetToBag({r})) (+) SetToBag({r2})

\* a request arrives and is routed
Receive ==
    /\ BagCardinality(reqs) < MaxReqs
    /\ \E ep \in Endpoints, name \in Names, auth \in ReqHeaders :
          /\ ep \in {"home", "healthz"} => name = "web"   \* path carries no name
          /\ ep = "healthz" => auth = None                \* header never read
          /\ (JWT_SECRET = None \/ JWT_SECRET[1] = <<>>) => auth = None
                                   \* require_auth returns before it reads it
          /\ reqs' = reqs (+) SetToBag({NewReq(ep, name, auth)})
    /\ HttpUnchanged

\* FastAPI resolves Depends(require_auth) before it calls the handler
require_auth_dep ==
    /\ \E r \in BagToSet(reqs) :
          /\ r.pc = "gate"
          /\ LET st == require_auth(JWT_SECRET, r.auth) IN
             reqs' = Replace(r,
                 IF st = 0
                 THEN [r EXCEPT !.pc = "body"]
                 ELSE [r EXCEPT !.pc = "done", !.status = st,
                                !.raised = "HTTPException"])
    /\ HttpUnchanged

\* one step of a handler body: the next runtime call of its program order
\* with the code that runs on its result, or the final response once all of
\* them returned
BodyStep(r, guard) ==
    LET plan == handler_calls(r.ep, r.name)
        k    == Len(r.calls)
    IN
    /\ r.pc = "body"
    /\ IF k = 0 /\ guard # 0
       THEN reqs' = Replace(r, [r EXCEPT !.pc = "done", !.status = guard,
                                         !.raised = "HTTPException"])
       ELSE IF k < Len(plan)
       THEN \E out \in RuntimeOutcomes(plan[k + 1]) :
            \E exc \in (IF out = "ok" THEN AfterCall(plan[k + 1]) ELSE {out}) :
               reqs' = Replace(r,
                   IF exc = ""
                   THEN [r EXCEPT !.calls = Append(@, plan[k + 1])]
                   ELSE IF CatchesException(r.ep)
                   THEN [r EXCEPT !.calls = Append(@, plan[k + 1]),
                                  !.pc = "done", !.status = HealthzErrorStatus]
                   ELSE [r EXCEPT !.calls = Append(@, plan[k + 1]),
                                  !.pc = "done", !.status = UnhandledStatus,
                                  !.raised = exc])
       ELSE reqs' = Replace(r, [r EXCEPT !.pc = "done", !.status = 200])
    /\ HttpUnchanged

home ==
    \E r \in BagToSet(reqs) : r.ep = "home" /\ BodyStep(r, 0)

start_container ==
    \E r \in BagToSet(reqs) :
        r.ep = "start" /\ BodyStep(r, actions_guard(ALLOW_ACTIONS))

stop_container ==
    \E r \in BagToSet(reqs) :
        r.ep = "stop" /\ BodyStep(r, actions_guard(ALLOW_ACTIONS))

restart_container ==
    \E r \in BagToSet(reqs) :
        r.ep = "restart" /\ BodyStep(r, actions_guard(ALLOW_ACTIONS))

container_detail ==
    \E r \in BagToSet(reqs) : r.ep = "detail" /\ BodyStep(r, 0)

container_logs ==
    \E r \in BagToSet(reqs) : r.ep = "logs" /\ BodyStep(r, 0)

healthz ==
    \E r \in BagToSet(reqs) : r.ep = "healthz" /\ BodyStep(r, 0)

Next ==
    \/ Receive
    \/ require_auth_dep
    \/ home
    \/ start_container
    \/ stop_container
    \/ restart_container
    \/ container_detail
    \/ container_logs
    \/ healthz

Spec == Init /\ [][Next]_vars

(***************************************************************************)
(* Port heuristic: _find_first_http_port                                   *)
(***************************************************************************)
\* plausible slip: ports outer, hints inner
hinted_list_ports_outer(hints, ports) ==
    SelectSeq(ports, LAMBDA p : \E h \in 1..Len(hints) : py_str(p.port) = hints[h])

\* [p for hint in PORT_HINTS for p in ports if str(p.port) == hint]
RECURSIVE hinted_list(_, _)
hinted_list(hints, ports) ==
    IF hints = <<>> THEN <<>>
    ELSE SelectSeq(ports, LAMBDA p : py_str(p.port) = Head(hints))
         \o hinted_list(Tail(hints), ports)

find_first_http_port(ports) ==
    IF ports = <<>> THEN None
    ELSE LET hinted == hinted_list(PORT_HINTS, ports) IN
         IF hinted # <<>> THEN Some(hinted[1]) ELSE Some(ports[1])

(***************************************************************************)
(* Inputs of the component models                                          *)
(***************************************************************************)
SeqsUpTo(S, n) == UNION {[1..k -> S] : k \in 0..n}

\* host-binding records: HostIp and HostPort each a string, absent or null
Bindings ==
    { Binding(Some("0.0.0.0"), Some(<<"8", "0", "8", "0">>)),
      Binding(None,            Some(<<"0">>)),
      Binding(Some("::"),      Some(<<"a", "b", "c">>)),
      Binding(Some("0.0.0.0"), None),
      Binding(Some("::"),      Some(<<"-", "1">>)),
      Binding(Some("0.0.0.0"), Some(<<"7", "0", "0", "0", "0">>)),
      Binding(Some("0.0.0.0"), Some(<<"", "8", "0", " ">>)),
      Binding(Null,            Some(<<"8", "0">>)),
      Binding(Null,            Null) }

\* Null: the key maps to null; Some(<<>>): to an empty list
BindingLists == {Null} \cup {Some(bs) : bs \in SeqsUpTo(Bindings, MaxBindings)}

KeyNames == <<"80/tcp", "443/tcp", "53/udp", "22/tcp", "8080/tcp">>

\* the port map with k keys whose binding lists are f[1], ..., f[k]
PortMap(k, f) == [i \in 1..k |-> [key |-> KeyNames[i], bindings |-> f[i]]]

\* NetworkSettings holding the port map m
NetworkSettingsOf(m) == Some([Ports |-> Some(m)])

HintLists ==
    { DefaultHints,
      << <<"8", "0", "8", "0">>, <<"3", "0", "0", "0">> >>,
      << <<"0", "8", "0">>, <<"2", "2">>, <<"-", "1">> >>,
      <<>> }

HeuristicPorts ==
    { PortInfo("0.0.0.0", 8000), PortInfo("0.0.0.0", 3000),
      PortInfo("127.0.0.1", 3000), PortInfo("0.0.0.0", 22),
      PortInfo("0.0.0.0", 6379), PortInfo("0.0.0.0", 80),
      PortInfo("::", -1) }

DtoInputs ==
    { Container(config, state, net, tags) :
        config \in { None, Null, Some([Image |-> None]), Some([Image |-> Null]),
                     Some([Image |-> Some("")]), Some([Image |-> Some("nginx:1.25")]) },
        state  \in { None, Null, Some([Status |-> None]), Some([Status |-> Null]),
                     Some([Status |-> Some("running")]) },
        net    \in { None, Null, Some([Ports |-> None]), Some([Ports |-> Null]),
                     Some([Ports |-> Some(SampleMap1)]), Some([Ports |-> Some(SampleMap2)]),
                     Some([Ports |-> Some(SampleMap3)]) },
        tags   \in { <<>>, <<"nginx:latest">>, <<"registry.local/app:2", "app:latest">> } }

(***************************************************************************)
(* The access gate in isolation                                            *)
(***************************************************************************)
InitGate ==
    /\ JWT_SECRET \in GateSecrets
    /\ ALLOW_ACTIONS = TRUE
    /\ PORT_HINTS = DefaultHints
    /\ reqs = EmptyBag
    /\ auth_in \in GateHeaders
    /\ auth_out = None
    /\ IdleExtract /\ IdleHeuristic /\ IdleDto

GateCheck ==
    /\ auth_out = None
    /\ auth_out' = Some(require_auth(JWT_SECRET, auth_in))
    /\ UNCHANGED <<JWT_SECRET, ALLOW_ACTIONS, PORT_HINTS, reqs, auth_in,
                   ext_c, ext_ports, ports_in, http_port, raw, view>>

NextGate == GateCheck

SpecGate == InitGate /\ [][NextGate]_vars

(***************************************************************************)
(* Port extraction in isolation                                            *)
(***************************************************************************)
InitExtract ==
    /\ JWT_SECRET = None
    /\ ALLOW_ACTIONS = TRUE
    /\ PORT_HINTS = DefaultHints
    /\ reqs = EmptyBag
    /\ \/ \E net \in {None, Null, Some([Ports |-> None]), Some([Ports |-> Null])} :
             ext_c = Some(Container(None, None, net, <<>>))
       \/ \E k \in 0..MaxKeys : \E f \in [1..k -> BindingLists] :
             ext_c = Some(Container(None, None, NetworkSettingsOf(PortMap(k, f)), <<>>))
    /\ ext_ports = None
    /\ IdleGate /\ IdleHeuristic /\ IdleDto

Extract ==
    /\ ext_ports = None
    /\ ext_ports' = Some(extract_published_ports(ext_c[1]))
    /\ UNCHANGED <<JWT_SECRET, ALLOW_ACTIONS, PORT_HINTS, reqs, auth_in, auth_out,
                   ext_c, ports_in, http_port, raw, view>>

NextExtract == Extract

SpecExtract == InitExtract /\ [][NextExtract]_vars

(***************************************************************************)
(* The port heuristic in isolation                                         *)
(***************************************************************************)
InitHeuristic ==
    /\ JWT_SECRET = None
    /\ ALLOW_ACTIONS = TRUE
    /\ PORT_HINTS \in HintLists
    /\ reqs = EmptyBag
    /\ ports_in \in SeqsUpTo(HeuristicPorts, MaxPorts)
    /\ http_port = None
    /\ IdleGate /\ IdleExtract /\ IdleDto

FindPort ==
    /\ http_port = None
    /\ http_port' = Some(find_first_http_port(ports_in))
    /\ UNCHANGED <<JWT_SECRET, ALLOW_ACTIONS, PORT_HINTS, reqs, auth_in, auth_out,
                   ext_c, ext_ports, ports_in, raw, view>>

NextHeuristic == FindPort

SpecHeuristic == InitHeuristic /\ [][NextHeuristic]_vars

(***************************************************************************)
(* The view-model builder in isolation                                     *)
(***************************************************************************)
InitDto ==
    /\ JWT_SECRET = None
    /\ ALLOW_ACTIONS = TRUE
    /\ PORT_HINTS = DefaultHints
    /\ reqs = EmptyBag
    /\ raw \in {Some(c) : c \in DtoInputs}
    /\ view = None
    /\ IdleGate /\ IdleExtract /\ IdleHeuristic

BuildDto ==
    /\ view = None
    /\ view' = Some(dto(raw[1]))
    /\ UNCHANGED <<JWT_SECRET, ALLOW_ACTIONS, PORT_HINTS, reqs, auth_in, auth_out,
                   ext_c, ext_ports, ports_in, http_port, raw>>

NextDto == BuildDto

SpecDto == InitDto /\ [][NextDto]_vars

(***************************************************************************)
(* Properties                                                              *)
(***************************************************************************)
Reqs == BagToSet(reqs)

Done(r) == r.pc = "done"

SecretSet == JWT_SECRET # None /\ JWT_SECRET[1] # <<>>

\* h is "<scheme> <tok>" with <scheme> spelling bearer in any letter case
CarriesToken(h, tok) ==
    /\ h # None
    /\ \E k \in 1..Len(h[1]) :
          /\ h[1][k] = " "
          /\ Lower(SubSeq(h[1], 1, k - 1)) = <<"b", "e", "a", "r", "e", "r">>
          /\ SubSeq(h[1], k + 1, Len(h[1])) = tok

\* h begins with bearer (any letter case) and one space
HasBearerScheme(h) ==
    /\ h # None
    /\ Len(h[1]) >= 7
    /\ Lower(SubSeq(h[1], 1, 6)) = <<"b", "e", "a", "r", "e", "r">>
    /\ h[1][7] = " "

ProtectedEndpoints == {"home", "detail", "start", "stop", "restart", "logs"}

CommandCalls(r) == {k \in 1..Len(r.calls) : r.calls[k].op \in ActionEndpoints}

\* C1 as stated: with ALLOW_ACTIONS false every answered start/stop/restart
\* request is answered 403, whatever the secret and the Authorization header.
C1_AlwaysForbidden ==
    \A r \in Reqs :
        (~ALLOW_ACTIONS /\ r.ep \in ActionEndpoints /\ Done(r)) => r.status = 403

\* C1 amended: with ALLOW_ACTIONS false every answered start/stop/restart
\* request is rejected; the status is 401 when a secret is set and the request
\* has no bearer-scheme Authorization header, and 403 in every other case.
C1_RejectedByGateOrFlag ==
    \A r \in Reqs :
        (~ALLOW_ACTIONS /\ r.ep \in ActionEndpoints /\ Done(r))
            => /\ r.raised = "HTTPException"
               /\ r.status = IF SecretSet /\ ~HasBearerScheme(r.auth) THEN 401 ELSE 403

C1_Witness ==
    /\ ~ALLOW_ACTIONS
    /\ \E r, q \in Reqs :
          /\ r.ep = "stop" /\ Done(r) /\ r.auth = None /\ r.status = 401
          /\ q.ep = "restart" /\ Done(q) /\ q.auth = Some(BearerGood)
          /\ q.status = 403

\* C2: with ALLOW_ACTIONS false no request ever issues start, stop or restart
\* to the runtime, and a start/stop/restart request issues no runtime call at
\* all.
C2_NoCommandWhenDisabled ==
    ~ALLOW_ACTIONS =>
        \A r \in Reqs :
            /\ CommandCalls(r) = {}
            /\ r.ep \in ActionEndpoints => r.calls = <<>>

C2_Witness ==
    /\ ~ALLOW_ACTIONS
    /\ JWT_SECRET = Some(s3cret)
    /\ \E r, q \in Reqs :
          /\ r.ep = "start" /\ r.auth = Some(BearerGood)
          /\ Done(r) /\ r.status = 403 /\ r.calls = <<>>
          /\ q.ep = "detail" /\ Done(q) /\ Len(q.calls) = 2

\* C3 as stated: secret unset admits everything; secret set admits exactly the
\* requests carrying a bearer header with the secret as token, answers 401 when
\* there is no Authorization header and 403 when a header is present but does
\* not match.
C3_GateAsStated ==
    auth_out # None =>
        IF JWT_SECRET = None THEN auth_out[1] = 0
        ELSE /\ auth_out[1] = 0 <=> CarriesToken(auth_in, JWT_SECRET[1])
             /\ auth_in = None => auth_out[1] = 401
             /\ (auth_in # None /\ ~CarriesToken(auth_in, JWT_SECRET[1]))
                    => auth_out[1] = 403

\* C3 amended: a secret that is unset or empty admits everything; otherwise a
\* request is admitted exactly when its header is bearer (any letter case),
\* one space, then the secret byte for byte; a header that is missing, empty
\* or does not start with bearer-and-a-space gives 401; a bearer header with a
\* different token gives 403.
C3_GateDecision ==
    auth_out # None =>
        auth_out[1] =
            IF ~SecretSet THEN 0
            ELSE IF ~HasBearerScheme(auth_in) THEN 401
            ELSE IF CarriesToken(auth_in, JWT_SECRET[1]) THEN 0
            ELSE 403

C3_Witness ==
    /\ JWT_SECRET = Some(s3cret)
    /\ auth_in = Some(<<"B", "a", "s", "i", "c", " ", "s", "3", "c", "r", "e", "t">>)
    /\ auth_out = Some(401)

\* C4: a request to a protected endpoint that the access gate rejects has
\* issued no runtime call, and no request issues one before its gate has run.
C4_GateBeforeRuntime ==
    \A r \in Reqs :
        /\ (r.ep \in ProtectedEndpoints /\ require_auth(JWT_SECRET, r.auth) # 0)
               => r.calls = <<>>
        /\ r.pc = "gate" => r.calls = <<>>

C4_Witness ==
    \E r, q \in Reqs :
        /\ r.ep = "logs" /\ Done(r) /\ r.status = 401 /\ r.calls = <<>>
        /\ q.ep = "home" /\ Done(q) /\ q.status = 403 /\ q.calls = <<>>

\* C8: a request that ends because getContainer raised NotFound is answered
\* with a 4xx status, and has issued no start, stop, restart or logs call.
C8_NotFoundIsClientError ==
    \A r \in Reqs :
        (Done(r) /\ r.raised = "NotFound")
            => /\ r.status \in 400..499
               /\ \A k \in 1..Len(r.calls) :
                     r.calls[k].op \notin {"start", "stop", "restart", "logs"}

Admitted(r) == require_auth(JWT_SECRET, r.auth) = 0 /\ ALLOW_ACTIONS

IsPrefix(s, t) == Len(s) <= Len(t) /\ SubSeq(t, 1, Len(s)) = s

\* sum of w[r] over the requests in S, each counted as often as it is in reqs
RECURSIVE SumOver(_, _)
SumOver(S, w) ==
    IF S = {} THEN 0
    ELSE LET r == CHOOSE x \in S : TRUE IN
         CopiesIn(r, reqs) * w[r] + SumOver(S \ {r}, w)

\* number of calls c that the runtime has received
Received(c) ==
    SumOver(Reqs, [r \in Reqs |-> Cardinality({k \in 1..Len(r.calls) : r.calls[k] = c})])

\* number of admitted requests for command op on container n
AdmittedFor(op, n) ==
    SumOver(Reqs, [r \in Reqs |->
                     IF r.ep = op /\ r.name = n /\ Admitted(r) THEN 1 ELSE 0])

\* the request was answered because its getContainer raised
GetRaised(r) ==
    /\ Done(r) /\ r.calls = <<Call("get", r.name)>>
    /\ r.raised \in {"NotFound", "APIError"}

\* number of admitted requests for command op on container n whose
\* getContainer returned the container
LookedUpFor(op, n) ==
    SumOver(Reqs, [r \in Reqs |->
                     IF r.ep = op /\ r.name = n /\ Admitted(r) /\ ~GetRaised(r)
                     THEN 1 ELSE 0])

\* C10 as stated: once answered, every admitted start/stop/restart request on
\* an existing container has issued its getContainer and its command exactly
\* once, so that N such requests make the runtime receive exactly N commands.
C10_ExactlyNCommands ==
    /\ \A r \in Reqs :
          (r.ep \in ActionEndpoints /\ Done(r) /\ Admitted(r) /\ Exists(r.name))
              => r.calls = <<Call("get", r.name), Call(r.ep, r.name)>>
    /\ (\A r \in Reqs : Done(r)) =>
          \A op \in ActionEndpoints, n \in Names :
              Exists(n) => Received(Call(op, n)) = AdmittedFor(op, n)

\* C10 amended: a start/stop/restart request issues at most one getContainer
\* and then at most one command, in that order, also when the command fails;
\* an answered admitted request has issued its getContainer exactly once, and
\* its command exactly once unless that getContainer raised (NotFound or a
\* runtime error), in which case it issued no command and was answered 500;
\* when every request is answered the runtime has received, per command and
\* container, exactly one command for each admitted request whose
\* getContainer returned.
C10_OneForOne ==
    /\ \A r \in Reqs :
          r.ep \in ActionEndpoints =>
              /\ IsPrefix(r.calls, <<Call("get", r.name), Call(r.ep, r.name)>>)
              /\ (Done(r) /\ Admitted(r)) =>
                    \/ Len(r.calls) = 2
                    \/ GetRaised(r) /\ r.status = 500
              /\ (Done(r) /\ Admitted(r) /\ ~Exists(r.name)) => GetRaised(r)
    /\ (\A r \in Reqs : Done(r)) =>
          \A op \in ActionEndpoints, n \in Names :
              Received(Call(op, n)) = LookedUpFor(op, n)

C10_Witness ==
    /\ ALLOW_ACTIONS
    /\ \A r \in Reqs : Done(r)
    /\ \E r, q \in Reqs :
          /\ r.ep = "start" /\ r.name = "web" /\ q.ep = "start" /\ q.name = "web"
          /\ r.status = 500 /\ r.raised = "APIError"
          /\ r.calls = <<Call("get", "web")>>
          /\ q.status = 500 /\ q.raised = "APIError"
          /\ q.calls = <<Call("get", "web"), Call("start", "web")>>
    /\ Received(Call("start", "web")) = 1
    /\ Received(Call("get", "web")) = 2

\* the port map of the container under extraction
ExtMap == port_map_of(ext_c[1]).value[1]

\* every binding record of a port map, in key order then binding order
RECURSIVE AllBindings(_)
AllBindings(m) ==
    IF m = <<>> THEN <<>>
    ELSE (IF IsNull(Head(m).bindings) THEN <<>> ELSE Head(m).bindings[1])
         \o AllBindings(Tail(m))

HostPortParses(b) == py_int(b.HostPort) # None

\* C6: extraction never fails as a whole; its result holds one PortInfo per
\* binding whose host port parses as an integer, in key order then binding
\* order, duplicates included; every other binding and every key without
\* bindings contributes nothing.
C6_ExtractExactlyValid ==
    (ext_ports # None /\ ~IsNull(ext_c[1].attrs.NetworkSettings)) =>
        LET kept == SelectSeq(AllBindings(ExtMap), HostPortParses) IN
        /\ ext_ports[1].raised = ""
        /\ Len(ext_ports[1].value[1]) = Len(kept)
        /\ \A i \in 1..Len(kept) :
              /\ ext_ports[1].value[1][i].port = py_int(kept[i].HostPort)[1]
              /\ kept[i].HostIp = None => ext_ports[1].value[1][i].host = "127.0.0.1"

\* C9: every PortInfo the extraction emits has a port in 1..65535.
C9_PortInRange ==
    (ext_ports # None /\ ext_ports[1].raised = "") =>
        \A k \in 1..Len(ext_ports[1].value[1]) :
            ext_ports[1].value[1][k].port \in 1..65535

\* C5: the heuristic returns none iff ports is empty; otherwise, when some
\* port matches some hint, the earliest port (in ports order) matching the
\* earliest hint that has a match; otherwise the first port.
C5_PrimaryPort ==
    http_port # None =>
        LET Match(i, h)  == py_str(ports_in[i].port) = PORT_HINTS[h]
            HasMatch(h)  == \E i \in 1..Len(ports_in) : Match(i, h)
            MatchedHints == {h \in 1..Len(PORT_HINTS) : HasMatch(h)}
        IN
        /\ http_port[1] = None <=> ports_in = <<>>
        /\ ports_in # <<>> =>
              IF MatchedHints # {}
              THEN LET h0 == CHOOSE h \in MatchedHints : \A g \in MatchedHints : h <= g
                       i0 == CHOOSE i \in 1..Len(ports_in) :
                                 Match(i, h0) /\ \A j \in 1..(i - 1) : ~Match(j, h0)
                   IN  http_port[1] = Some(ports_in[i0])
              ELSE http_port[1] = Some(ports_in[1])

C5_Witness ==
    /\ PORT_HINTS = << <<"8", "0", "8", "0">>, <<"3", "0", "0", "0">> >>
    /\ ports_in = <<PortInfo("0.0.0.0", 8000), PortInfo("0.0.0.0", 3000)>>
    /\ http_port = Some(Some(PortInfo("0.0.0.0", 3000)))

\* C7: the image field of the view that is built is never blank; it is the
\* configured image reference when one is recorded and non-empty, else the
\* first tag of the image, else the image's short digest.
C7_ImageNeverBlank ==
    (view # None /\ view[1].raised = "") =>
        LET c          == raw[1]
            configured == IF c.attrs.Config = None THEN None
                          ELSE c.attrs.Config[1].Image
            built      == view[1].value[1]
        IN
        /\ built.image # ""
        /\ built.image =
              IF configured # None /\ configured[1] # "" THEN configured[1]
              ELSE IF c.image.tags # <<>> THEN c.image.tags[1]
              ELSE c.image.short_id

====
